---- MODULE Spec2Model ----
(***************************************************************************)
(* A model of the better-auth-mcp repository: the table-of-contents        *)
(* parser and crawl orchestrator (scraper.py), the document store          *)
(* (feature_store.py), the two tool servers (main.py, mcp-server.py) and   *)
(* the tool-calling loop of the chat client (chatbot.py).                  *)
(*                                                                         *)
(* Conventions.                                                            *)
(*  - Optional[T] is a sequence of length 0 (None) or 1 (the value).       *)
(*  - A text is a string for a page and a sequence of lines for the table  *)
(*    of contents; the empty text is "" resp. << >>.                       *)
(*  - A route is a number n standing for "/llms.txt/docs/<n>.md".          *)
(*  - An HTTP exchange is [status, body]; status 0 stands for a network    *)
(*    error or timeout (client.get raises), any other status is what the   *)
(*    origin answered.                                                     *)
(*  - A Python dict is the sequence of its items in insertion order.       *)
(***************************************************************************)
EXTENDS Integers, Sequences, FiniteSets, TLC

\* ------------------------------------------------------------------ bounds
\* Routes of the small worlds are 1..MaxRoute.
MaxRoute == 2
\* Longest table-of-contents text handed to parse_toc on its own.
MaxTocLines == 2
\* Longest document list handed to upsert_docs on its own.
MaxBatch == 2
\* Number of successive upsert_docs calls followed in the store specification.
MaxUpserts == 3

\* ------------------------------------------------------- program constants
\* asyncio.Semaphore(10)
MaxConcurrent == 10
\* max_iterations = 5
max_iterations == 5

None == << >>
Some(x) == << x >>

Routes == 1..MaxRoute
Titles == {"T1", "T2"}
Descriptions == {"", "D1"}

\* =====================================================================
\* scraper.py: parse_toc
\* =====================================================================

\* A line of the table of contents, as the two regular expressions of
\* parse_toc see it after line.strip():
\*   hashes  the number of leading '#'
\*   sp      whether white space follows the hashes
\*   body    what follows:  "blank"    nothing
\*                          "text"     text holding no markdown link
\*                          "link"     [title](/llms.txt<rest>) with a non-empty
\*                                     rest, optionally followed by ": description"
\*                          "badlink"  [title](target), target without the prefix
\*                          "barelink" [title](/llms.txt), nothing after the prefix
\* hashes = 0 with body "blank" is a blank (white space only) line.
\* Two leading hashes behave as one and are left out of the alphabet.
HashCounts == {0, 1, 3, 4}

NoLinkLines ==
    { [hashes |-> h, sp |-> s, body |-> b, title |-> "", route |-> 0, description |-> ""] :
        h \in HashCounts, s \in BOOLEAN, b \in {"blank", "text", "badlink", "barelink"} }

LinkLines ==
    { [hashes |-> h, sp |-> s, body |-> "link", title |-> t, route |-> r, description |-> d] :
        h \in HashCounts, s \in BOOLEAN, t \in Titles, r \in Routes, d \in Descriptions }

\* White space after the hashes is only told apart for three hashes, where the
\* header pattern looks at it; a line without hashes has sp = FALSE.
Lines ==
    { l \in NoLinkLines \cup LinkLines :
        /\ (l.hashes = 0 => ~l.sp)
        /\ (l.hashes \in {1, 4} => l.sp)
        /\ (l.body = "blank" => ~l.sp) }

\* `if not line: continue` on the stripped line
IsBlank(l) == l.hashes = 0 /\ l.body = "blank"

\* re.match(r"^###\s+", line): exactly "###" and then white space
IsCategoryHeader(l) == l.hashes = 3 /\ l.sp

\* re.search(r"\[([^\]]+)\]\((/llms\.txt[^\)]+)\)(?:\s*:\s*(.+))?", line)
LinkMatch(l) == l.body = "link"

\* routes_metadata.setdefault(route, {...}): the first occurrence is kept
DictSetKeepFirst(d, k, v) ==
    IF \E i \in 1..Len(d) : d[i].route = k THEN d ELSE Append(d, v)

\* routes_metadata[route] = {...}: an existing key keeps its place in the dict
DictSet(d, k, v) ==
    IF \E i \in 1..Len(d) : d[i].route = k
    THEN [i \in 1..Len(d) |-> IF d[i].route = k THEN v ELSE d[i]]
    ELSE Append(d, v)

\* One iteration of `for line in lines`
ParseLine(l, acc) ==
    IF IsBlank(l) THEN acc
    ELSE IF IsCategoryHeader(l) THEN acc
    ELSE IF LinkMatch(l)
         THEN DictSet(acc, l.route,
                      [route |-> l.route, title |-> l.title, description |-> l.description])
         ELSE acc

RECURSIVE ParseLines(_, _)
ParseLines(lines, acc) ==
    IF lines = << >> THEN acc
    ELSE ParseLines(Tail(lines), ParseLine(Head(lines), acc))

parse_toc(toc_content) == ParseLines(toc_content, << >>)

\* list(routes_metadata.keys())
Keys(d) == [i \in 1..Len(d) |-> d[i].route]
KeySet(d) == { d[i].route : i \in 1..Len(d) }
Lookup(d, k) == d[CHOOSE i \in 1..Len(d) : d[i].route = k]

\* =====================================================================
\* feature_store.py: FeatureStore.upsert_docs over a ChromaDB collection
\* =====================================================================

\* A document handed to upsert_docs is [route, description, title, content].
\* A record of the collection is [id, route, description, document, embedding]:
\* metadata route and description, the payload, and the vector, kept here as the
\* text that was embedded.  The metadata timestamp (the clock) is left out.
Contents == {"a", "b"}

\* doc_parts / "\n\n".join(doc_parts): description and content, each only if
\* non-empty
DocText(doc) ==
    (IF doc.description # "" THEN << doc.description >> ELSE << >>)
        \o (IF doc.content # "" THEN << doc.content >> ELSE << >>)

\* ids=all_docs: the payload passed where the ids belong
DocIdFromContent(doc) == doc.content

\* all_ids.append(route)  # Use route as ID
DocId(doc) == doc.route

\* The parallel lists all_ids, all_embeddings, all_metadatas, all_docs
DocRecord(doc) ==
    [id |-> DocId(doc), route |-> doc.route, description |-> doc.description,
     document |-> doc.content, embedding |-> DocText(doc)]

DocRoutes(docs) == { docs[i].route : i \in 1..Len(docs) }
ContentsOf(docs, r) == { docs[i].content : i \in { j \in 1..Len(docs) : docs[j].route = r } }

\* The delete loop left out: nothing is removed before the add
KeepExisting(coll, docs) == coll

\* a delete without a where clause: the collection is emptied before the add
DeleteEverything(coll, docs) == {}

\* for route in set(routes): collection.delete(where={"route": route})
\* (a delete that raises is swallowed: it is the delete of nothing)
DeleteExisting(coll, docs) == { rec \in coll : rec.route \notin DocRoutes(docs) }

\* collection.add(ids=..., ...): the ids of a collection are unique.  A batch
\* that repeats an id is rejected as a whole (DuplicateIDError) before anything
\* is written; a record whose id is already stored is not added again.
CollectionAdd(coll, recs) ==
    IF \E i, j \in 1..Len(recs) : i # j /\ recs[i].id = recs[j].id
    THEN [raised |-> TRUE, collection |-> coll]
    ELSE [raised |-> FALSE,
          collection |-> coll \cup { recs[i] : i \in { j \in 1..Len(recs) :
                                        \A old \in coll : old.id # recs[j].id } }]

\* upsert_docs(docs): [raised, count, collection]; count is the returned
\* len(all_docs) and is 0 when the call raised
upsert_docs(coll, docs) ==
    LET recs    == [i \in 1..Len(docs) |-> DocRecord(docs[i])]
        deleted == DeleteExisting(coll, docs)
    IN  IF Len(recs) = 0
        THEN [raised |-> FALSE, count |-> 0, collection |-> deleted]
        ELSE LET added == CollectionAdd(deleted, recs)
             IN  [raised |-> added.raised,
                  count |-> IF added.raised THEN 0 ELSE Len(recs),
                  collection |-> added.collection]

\* =====================================================================
\* scraper.py: request_page, fetch_document, scrape_all_docs
\* =====================================================================

\* response.raise_for_status() passes for a 2xx status only
IsSuccessStatus(status) == status >= 200 /\ status <= 299

\* request_page without raise_for_status: any answer of the origin is returned
RequestPageAnyStatus(x) == IF x.status = 0 THEN None ELSE Some(x.body)

\* request_page(url): the text of a 2xx answer; None when client.get or
\* raise_for_status raised (`except Exception: return None`)
request_page(x) ==
    IF x.status = 0 THEN None
    ELSE IF ~IsSuccessStatus(x.status) THEN None
    ELSE Some(x.body)

\* fetch_document(route, metadata), given what request_page returned
fetch_document(route, metadata, content) ==
    IF content = None THEN None
    ELSE Some([route |-> route, description |-> metadata.description,
               title |-> metadata.title, content |-> content[1]])

\* `if not toc_content`: None or the empty text
TocMissing(toc_content) == IF toc_content = None THEN TRUE ELSE toc_content[1] = << >>

\* A semaphore that admits every caller
AcquireAlways(value) == TRUE

\* asyncio.Semaphore.acquire: proceeds while the counter is positive
CanAcquire(value) == value > 0

\* A failed fetch put back in the queue
RetryOnFailure(result) == IF result = None THEN "waiting" ELSE "done"

\* fetch_with_semaphore returns whatever fetch_document returned: the task is over
TaskAfterFetch(result) == "done"

\* Only results that are exceptions counted as failures
FailedExceptionsOnly(results) == 0

\* a gather that hands back as soon as its first task has finished
GatherFirstCompleted(task) == \E i \in 1..Len(task) : task[i] = "done"

\* results = await tqdm.gather(*tasks): resumes when every task has finished
GatherDone(task) == \A i \in 1..Len(task) : task[i] = "done"

\* The aggregation loop: `elif result is None: failed += 1` (no result is an
\* exception: request_page swallows every one of them)
CountFailed(results) == Cardinality({ i \in 1..Len(results) : results[i] = None })

RECURSIVE CollectDocs(_)
\* `else: docs.append(result)`, in the order of routes
CollectDocs(results) ==
    IF results = << >> THEN << >>
    ELSE (IF Head(results) = None THEN << >> ELSE << Head(results)[1] >>)
            \o CollectDocs(Tail(results))

\* The table of contents of the origin listing the routes 1..n in order, under a
\* title line and a category header, each as "- [T1](route): D1"
RECURSIVE TocLinks(_)
TocLinks(n) ==
    IF n = 0 THEN << >>
    ELSE Append(TocLinks(n - 1),
                [hashes |-> 0, sp |-> FALSE, body |-> "link", title |-> "T1",
                 route |-> n, description |-> "D1"])

TocListing(n) ==
    << [hashes |-> 1, sp |-> TRUE, body |-> "text", title |-> "", route |-> 0, description |-> ""],
       [hashes |-> 3, sp |-> TRUE, body |-> "text", title |-> "", route |-> 0, description |-> ""] >>
        \o TocLinks(n)

\* =====================================================================
\* main.py and mcp-server.py: the two tool servers (the same code twice)
\* =====================================================================

\* What a fetch helper or a tool hands its caller: a value, or an exception
Returned(v) == [raised |-> FALSE, value |-> v]
Raised == [raised |-> TRUE, value |-> None]

SentinelToc == "Unable to fetch table of contents."
SentinelPage == "Unable to fetch page."

\* `if not data`: None or the empty text
NoData(data) == IF data = None THEN TRUE ELSE data[1] = ""

\* No except clause: the exception of client.get / raise_for_status leaves the helper
FetchErrorPropagates == Raised

\* main.py `except Exception: return None`
main_on_fetch_error == Returned(None)

\* main.py make_better_auth_request(url)
main_make_better_auth_request(x) ==
    IF x.status = 0 THEN main_on_fetch_error
    ELSE IF ~IsSuccessStatus(x.status) THEN main_on_fetch_error
    ELSE Returned(Some(x.body))

\* main.py get_table_of_contents()
main_get_table_of_contents(x) ==
    LET data == main_make_better_auth_request(x)
    IN  IF data.raised THEN Raised
        ELSE IF NoData(data.value) THEN Returned(Some(SentinelToc))
        ELSE Returned(data.value)

\* main.py read_page(page_route)
main_read_page(x) ==
    LET data == main_make_better_auth_request(x)
    IN  IF data.raised THEN Raised
        ELSE IF NoData(data.value) THEN Returned(Some(SentinelPage))
        ELSE Returned(data.value)

\* mcp-server.py `except Exception: return None`
mcp_on_fetch_error == Returned(None)

\* mcp-server.py make_better_auth_request(url)
mcp_make_better_auth_request(x) ==
    IF x.status = 0 THEN mcp_on_fetch_error
    ELSE IF ~IsSuccessStatus(x.status) THEN mcp_on_fetch_error
    ELSE Returned(Some(x.body))

\* mcp-server.py get_table_of_contents()
mcp_get_table_of_contents(x) ==
    LET data == mcp_make_better_auth_request(x)
    IN  IF data.raised THEN Raised
        ELSE IF NoData(data.value) THEN Returned(Some(SentinelToc))
        ELSE Returned(data.value)

\* mcp-server.py read_page(page_route)
mcp_read_page(x) ==
    LET data == mcp_make_better_auth_request(x)
    IN  IF data.raised THEN Raised
        ELSE IF NoData(data.value) THEN Returned(Some(SentinelPage))
        ELSE Returned(data.value)

\* The tool `name` of server `server`, given the exchange its GET has
RunTool(server, name, x) ==
    IF server = "main.py"
    THEN IF name = "get_table_of_contents" THEN main_get_table_of_contents(x)
         ELSE main_read_page(x)
    ELSE IF name = "get_table_of_contents" THEN mcp_get_table_of_contents(x)
         ELSE mcp_read_page(x)

\* =====================================================================
\* chatbot.py: the turn of Chatbot.render
\* =====================================================================

\* A reply of the model, as the loop reads it:
\*   "function_call"  parts[0] is a function call with usable arguments
\*   "bad_arguments"  parts[0] is a function call whose args dict() cannot take
\*   "text"           parts[0] is text
\*   "malformed"      there is no candidates[0].content.parts[0] to read
\* text is response.text: None when the reply has no text part.
ToolNames == {"get_table_of_contents", "read_page"}

Replies ==
    { [kind |-> "function_call", name |-> n, text |-> None] : n \in ToolNames }
        \cup { [kind |-> "bad_arguments", name |-> "read_page", text |-> None],
               [kind |-> "text", name |-> "", text |-> Some("answer")],
               [kind |-> "malformed", name |-> "", text |-> None] }

\* What call_mcp_tool may return
ToolResults == {"doc", "Error: unknown tool"}

\* Reading response.candidates[0].content.parts[0] raises
ReplyUnreadable(reply) == reply.kind = "malformed"

\* parts[0].function_call is set
HasFunctionCall(reply) == reply.kind \in {"function_call", "bad_arguments"}

\* dict(function_call.args) raises
ArgumentsUnusable(reply) == reply.kind = "bad_arguments"

\* `iteration <= max_iterations`
LoopContinuesOffByOne(reply, iteration) == HasFunctionCall(reply) /\ iteration <= max_iterations

\* while <function_call> and iteration < max_iterations
LoopContinues(reply, iteration) == HasFunctionCall(reply) /\ iteration < max_iterations

\* st.session_state.chat_history = [entry]
HistoryReplaced(history, entry) == << entry >>

\* st.session_state.chat_history.append(entry)
HistoryAppend(history, entry) == Append(history, entry)

UserTurn(text) == [role |-> "user", tool_name |-> "", content |-> Some(text)]
AssistantTurn(text) == [role |-> "assistant", tool_name |-> "", content |-> text]
ToolTurn(name, result) == [role |-> "tool", tool_name |-> name, content |-> Some(result)]

\* The model input built from the history: user and assistant entries only
RECURSIVE BuildContents(_)
BuildContents(history) ==
    IF history = << >> THEN << >>
    ELSE LET msg == Head(history)
         IN  (IF msg.role = "user" THEN << [role |-> "user", part |-> "text"] >>
              ELSE IF msg.role = "assistant" THEN << [role |-> "model", part |-> "text"] >>
              ELSE << >>)
                \o BuildContents(Tail(history))

IsPrefix(s, t) == Len(s) <= Len(t) /\ \A i \in 1..Len(s) : s[i] = t[i]

VARIABLES
    \* parse_toc called on its own
    toc_pc,        \* "input" | "parsed"
    toc_text,      \* the argument of parse_toc
    toc_result,    \* the dict parse_toc returned
    \* the document store
    collection,    \* FeatureStore.collection: the set of stored records
    last_docs,     \* the argument of the most recent upsert_docs call
    upsert_result, \* None before the first call, else Some([raised, count]) of the most recent
    upsert_calls,  \* the number of upsert_docs calls so far
    rewritten,     \* the routes that the most recent call and the one before it both
                   \* held, with different content
    \* the origin server
    site_toc,      \* the exchange a GET of /llms.txt has
    site_pages,    \* route -> the exchange a GET of that page has
    \* scrape_all_docs
    crawl_pc,      \* "idle" | "toc" | "gather" | "returned" | "raised"
    toc_content,   \* what request_page(toc_url) returned
    routes_metadata,
    routes,
    sem,           \* the semaphore's counter
    task,          \* per index of routes: "waiting" | "fetching" | "done"
    results,       \* per index of routes: what the task returned (None until then)
    requests,      \* url -> the number of GETs issued for it (0 is /llms.txt)
    stats,         \* None, or Some(the returned statistics)
    collection_before, \* the collection when scrape_all_docs was called
    \* a tool server
    tool_pc,       \* "idle" | "fetching" | "returned"
    tool_call,     \* [server, name, page_route] of the call being served
    tool_exchange, \* the exchange its GET had
    tool_return,   \* what the tool handed the transport layer
    \* Chatbot.render
    turn_pc,       \* "idle" | "llm" | "loop" | "tool" | "done" | "error"
    chat_history,  \* st.session_state.chat_history
    turn_start,    \* the history when the query came in
    contents,      \* the model input
    response,      \* None, or Some(the latest reply of the model)
    iteration,
    tool_name,     \* the tool being called
    tool_calls,    \* the number of call_mcp_tool calls of this turn
    errors_shown   \* the number of st.error calls of this turn

tocVars == << toc_pc, toc_text, toc_result >>
storeVars == << collection, last_docs, upsert_result, upsert_calls, rewritten >>
siteVars == << site_toc, site_pages >>
crawlVars == << crawl_pc, toc_content, routes_metadata, routes, sem, task, results,
                requests, stats, collection_before >>
toolVars == << tool_pc, tool_call, tool_exchange, tool_return >>
chatVars == << turn_pc, chat_history, turn_start, contents, response, iteration, tool_name,
               tool_calls, errors_shown >>
vars == << tocVars, storeVars, siteVars, crawlVars, toolVars, chatVars >>

RECURSIVE SeqsUpTo(_, _)
SeqsUpTo(S, n) ==
    IF n = 0 THEN { << >> }
    ELSE LET shorter == SeqsUpTo(S, n - 1)
         IN  shorter \cup { Append(s, x) : s \in { t \in shorter : Len(t) = n - 1 }, x \in S }

\* ------------------------------------------------------- the idle parts
TocIdle ==
    /\ toc_pc = "input"
    /\ toc_text = << >>
    /\ toc_result = << >>

StoreEmpty ==
    /\ collection = {}
    /\ last_docs = << >>
    /\ upsert_result = None
    /\ upsert_calls = 0
    /\ rewritten = {}

CrawlIdle ==
    /\ crawl_pc = "idle"
    /\ toc_content = None
    /\ routes_metadata = << >>
    /\ routes = << >>
    /\ sem = MaxConcurrent
    /\ task = << >>
    /\ results = << >>
    /\ requests = [u \in 0..0 |-> 0]
    /\ stats = None
    /\ collection_before = {}

SiteDown ==
    /\ site_toc = [status |-> 0, body |-> << >>]
    /\ site_pages = << >>

ToolIdle ==
    /\ tool_pc = "idle"
    /\ tool_call = None
    /\ tool_exchange = None
    /\ tool_return = None

ChatIdle ==
    /\ turn_pc = "idle"
    /\ chat_history = << >>
    /\ turn_start = << >>
    /\ contents = << >>
    /\ response = None
    /\ iteration = 0
    /\ tool_name = ""
    /\ tool_calls = 0
    /\ errors_shown = 0

\* ------------------------------------------------------------ parse_toc
InitToc ==
    /\ toc_pc = "input"
    /\ toc_text \in SeqsUpTo(Lines, MaxTocLines)
    /\ toc_result = << >>
    /\ StoreEmpty
    /\ SiteDown
    /\ CrawlIdle
    /\ ToolIdle
    /\ ChatIdle

ParseTocCall ==
    /\ toc_pc = "input"
    /\ toc_result' = parse_toc(toc_text)
    /\ toc_pc' = "parsed"
    /\ UNCHANGED << toc_text, storeVars, siteVars, crawlVars, toolVars, chatVars >>

NextToc == ParseTocCall

SpecToc == InitToc /\ [][NextToc]_vars

\* ---------------------------------------------------------- upsert_docs
StoreDocs ==
    { [route |-> r, description |-> "D1", title |-> "T1", content |-> c] :
        r \in Routes, c \in Contents }

\* The effect of one upsert_docs(docs) call on the store
Upsert(docs) ==
    LET res == upsert_docs(collection, docs)
    IN  /\ collection' = res.collection
        /\ last_docs' = docs
        /\ upsert_result' = Some([raised |-> res.raised, count |-> res.count])
        /\ upsert_calls' = upsert_calls + 1
        /\ rewritten' = IF upsert_result = None THEN {}
                        ELSE { r \in DocRoutes(last_docs) \cap DocRoutes(docs) :
                                 ContentsOf(last_docs, r) # ContentsOf(docs, r) }

InitStore ==
    /\ StoreEmpty
    /\ TocIdle
    /\ SiteDown
    /\ CrawlIdle
    /\ ToolIdle
    /\ ChatIdle

UpsertCall ==
    /\ upsert_calls < MaxUpserts
    /\ \E docs \in SeqsUpTo(StoreDocs, MaxBatch) : Upsert(docs)
    /\ UNCHANGED << tocVars, siteVars, crawlVars, toolVars, chatVars >>

NextStore == UpsertCall

SpecStore == InitStore /\ [][NextStore]_vars

\* ------------------------------------------------------ scrape_all_docs
\* What the origin may answer for a page
PageExchanges ==
    { [status |-> 0, body |-> ""], [status |-> 404, body |-> "a"],
      [status |-> 200, body |-> ""], [status |-> 200, body |-> "a"],
      [status |-> 200, body |-> "b"] }

\* What the origin may answer for /llms.txt: no answer, an error page, an empty
\* body, or a listing of the first n routes
TocExchanges ==
    { [status |-> 0, body |-> << >>], [status |-> 500, body |-> TocListing(1)],
      [status |-> 200, body |-> << >>] }
        \cup { [status |-> 200, body |-> TocListing(n)] : n \in 0..MaxRoute }

\* A store left by an earlier crawl: every route with content "b"
EarlierStore ==
    { DocRecord([route |-> r, description |-> "D1", title |-> "T1", content |-> "b"]) :
        r \in Routes }

InitCrawl ==
    /\ site_toc \in TocExchanges
    /\ site_pages \in [Routes -> PageExchanges]
    /\ collection \in { {}, EarlierStore }
    /\ last_docs = << >>
    /\ upsert_result = None
    /\ upsert_calls = 0
    /\ rewritten = {}
    /\ TocIdle
    /\ CrawlIdle
    /\ ToolIdle
    /\ ChatIdle

\* scrape_all_docs(feature_store) is called: the GET of /llms.txt is issued
StartCrawl ==
    /\ crawl_pc = "idle"
    /\ crawl_pc' = "toc"
    /\ requests' = [requests EXCEPT ![0] = @ + 1]
    /\ collection_before' = collection
    /\ UNCHANGED << toc_content, routes_metadata, routes, sem, task, results, stats,
                    tocVars, storeVars, siteVars, toolVars, chatVars >>

\* request_page(toc_url) returned nothing usable: raise Exception("Failed to
\* fetch table of contents")
TocFailed ==
    /\ crawl_pc = "toc"
    /\ TocMissing(request_page(site_toc))
    /\ toc_content' = request_page(site_toc)
    /\ crawl_pc' = "raised"
    /\ UNCHANGED << routes_metadata, routes, sem, task, results, requests, stats,
                    collection_before, tocVars, storeVars, siteVars, toolVars, chatVars >>

\* request_page(toc_url) returned a text: parse it, create the semaphore and one
\* task per route, and await them all
TocFetched ==
    /\ crawl_pc = "toc"
    /\ ~TocMissing(request_page(site_toc))
    /\ toc_content' = request_page(site_toc)
    /\ routes_metadata' = parse_toc(request_page(site_toc)[1])
    /\ routes' = Keys(routes_metadata')
    /\ sem' = MaxConcurrent
    /\ task' = [i \in 1..Len(routes') |-> "waiting"]
    /\ results' = [i \in 1..Len(routes') |-> None]
    /\ requests' = [u \in {0} \cup KeySet(routes_metadata') |->
                        IF u = 0 THEN requests[0] ELSE 0]
    /\ crawl_pc' = "gather"
    /\ UNCHANGED << stats, collection_before, tocVars, storeVars, siteVars, toolVars, chatVars >>

\* Task i enters `async with semaphore` and issues its GET
Acquire(i) ==
    /\ crawl_pc = "gather"
    /\ task[i] = "waiting"
    /\ CanAcquire(sem)
    /\ sem' = sem - 1
    /\ task' = [task EXCEPT ![i] = "fetching"]
    /\ requests' = [requests EXCEPT ![routes[i]] = @ + 1]
    /\ UNCHANGED << crawl_pc, toc_content, routes_metadata, routes, results, stats,
                    collection_before, tocVars, storeVars, siteVars, toolVars, chatVars >>

\* The GET of task i is over: fetch_document returns and the semaphore is released
Complete(i) ==
    /\ crawl_pc = "gather"
    /\ task[i] = "fetching"
    /\ LET result == fetch_document(routes[i], Lookup(routes_metadata, routes[i]),
                                    request_page(site_pages[routes[i]]))
       IN  /\ results' = [results EXCEPT ![i] = result]
           /\ task' = [task EXCEPT ![i] = TaskAfterFetch(result)]
    /\ sem' = sem + 1
    /\ UNCHANGED << crawl_pc, toc_content, routes_metadata, routes, requests, stats,
                    collection_before, tocVars, storeVars, siteVars, toolVars, chatVars >>

\* gather returned: count, upsert the documents and return the statistics
Aggregate ==
    /\ crawl_pc = "gather"
    /\ GatherDone(task)
    /\ LET docs == CollectDocs(results)
           res  == upsert_docs(collection, docs)
       IN  /\ Upsert(docs)
           /\ IF res.raised
              THEN /\ crawl_pc' = "raised"
                   /\ stats' = None
              ELSE /\ crawl_pc' = "returned"
                   /\ stats' = Some([total_routes |-> Len(routes),
                                     successful |-> Len(docs),
                                     failed |-> CountFailed(results),
                                     upserted_docs |-> res.count])
    /\ UNCHANGED << toc_content, routes_metadata, routes, sem, task, results, requests,
                    collection_before, tocVars, siteVars, toolVars, chatVars >>

NextCrawl ==
    \/ StartCrawl
    \/ TocFailed
    \/ TocFetched
    \/ \E i \in 1..Len(task) : Acquire(i)
    \/ \E i \in 1..Len(task) : Complete(i)
    \/ Aggregate

Spec == InitCrawl /\ [][NextCrawl]_vars

\* The crawl of a site of more pages than the semaphore admits at a time: one
\* page is down, one is empty, the others are served
BigRoutes == 1..(MaxConcurrent + 1)

BigSite ==
    [r \in BigRoutes |->
        IF r = 1 THEN [status |-> 0, body |-> ""]
        ELSE IF r = 2 THEN [status |-> 200, body |-> ""]
        ELSE [status |-> 200, body |-> "a"]]

InitFanOut ==
    /\ site_toc \in { [status |-> 0, body |-> << >>],
                      [status |-> 200, body |-> TocListing(MaxConcurrent + 1)] }
    /\ site_pages = BigSite
    /\ StoreEmpty
    /\ TocIdle
    /\ CrawlIdle
    /\ ToolIdle
    /\ ChatIdle

SpecFanOut == InitFanOut /\ [][NextCrawl]_vars

\* ------------------------------------------------------ the tool servers
Servers == {"main.py", "mcp-server.py"}

ToolCalls ==
    { [server |-> s, name |-> "get_table_of_contents", page_route |-> 0] : s \in Servers }
        \cup { [server |-> s, name |-> "read_page", page_route |-> r] :
                 s \in Servers, r \in Routes }

\* What the origin may answer: nothing (status 0), or a status with a text
ToolExchanges ==
    { [status |-> 0, body |-> ""] }
        \cup { [status |-> c, body |-> b] :
                 c \in {200, 204, 301, 404, 500}, b \in {"", "a", "b"} }

InitTools ==
    /\ ToolIdle
    /\ TocIdle
    /\ StoreEmpty
    /\ SiteDown
    /\ CrawlIdle
    /\ ChatIdle

\* The transport layer calls a tool, which issues its GET
ToolCalled ==
    /\ tool_pc = "idle"
    /\ \E c \in ToolCalls : tool_call' = Some(c)
    /\ tool_pc' = "fetching"
    /\ UNCHANGED << tool_exchange, tool_return,
                    tocVars, storeVars, siteVars, crawlVars, chatVars >>

\* The GET is over and the tool hands its result to the transport layer
ToolFinished ==
    /\ tool_pc = "fetching"
    /\ \E x \in ToolExchanges :
          /\ tool_exchange' = Some(x)
          /\ tool_return' = Some(RunTool(tool_call[1].server, tool_call[1].name, x))
    /\ tool_pc' = "returned"
    /\ UNCHANGED << tool_call, tocVars, storeVars, siteVars, crawlVars, chatVars >>

NextTools == ToolCalled \/ ToolFinished

SpecTools == InitTools /\ [][NextTools]_vars

\* -------------------------------------------------------- Chatbot.render
\* Histories that earlier turns leave behind: none, an answered turn, an
\* answered turn with a tool call, a turn that failed at once
EarlierHistories ==
    { << >>,
      << UserTurn("q0"), AssistantTurn(Some("answer")) >>,
      << UserTurn("q0"), ToolTurn("read_page", "doc"), AssistantTurn(Some("answer")) >>,
      << UserTurn("q0") >> }

InitChat ==
    /\ turn_pc = "idle"
    /\ chat_history \in EarlierHistories
    /\ turn_start = << >>
    /\ contents = << >>
    /\ response = None
    /\ iteration = 0
    /\ tool_name = ""
    /\ tool_calls = 0
    /\ errors_shown = 0
    /\ ToolIdle
    /\ TocIdle
    /\ StoreEmpty
    /\ SiteDown
    /\ CrawlIdle

\* `except Exception as e: st.error(...)`: the turn is over
Caught ==
    /\ turn_pc' = "error"
    /\ errors_shown' = errors_shown + 1

\* A query comes in: it is appended to the history, the model input is built
\* and the model is called
Submit ==
    /\ turn_pc = "idle"
    /\ turn_start' = chat_history
    /\ chat_history' = HistoryAppend(chat_history, UserTurn("q"))
    /\ contents' = BuildContents(chat_history')
    /\ iteration' = 0
    /\ tool_calls' = 0
    /\ turn_pc' = "llm"
    /\ UNCHANGED << response, tool_name, errors_shown,
                    tocVars, storeVars, siteVars, crawlVars, toolVars >>

\* generate_content returns a reply
LlmReplied ==
    /\ turn_pc = "llm"
    /\ \E reply \in Replies : response' = Some(reply)
    /\ turn_pc' = "loop"
    /\ UNCHANGED << chat_history, turn_start, contents, iteration, tool_name, tool_calls,
                    errors_shown, tocVars, storeVars, siteVars, crawlVars, toolVars >>

\* generate_content raises
LlmRaised ==
    /\ turn_pc = "llm"
    /\ Caught
    /\ UNCHANGED << chat_history, turn_start, contents, response, iteration, tool_name,
                    tool_calls, tocVars, storeVars, siteVars, crawlVars, toolVars >>

\* The loop condition cannot read the reply, or dict(function_call.args) raises
\* inside the loop body
ReplyRaised ==
    /\ turn_pc = "loop"
    /\ \/ /\ ReplyUnreadable(response[1])
          /\ UNCHANGED iteration
       \/ /\ ~ReplyUnreadable(response[1])
          /\ LoopContinues(response[1], iteration)
          /\ ArgumentsUnusable(response[1])
          /\ iteration' = iteration + 1
    /\ Caught
    /\ UNCHANGED << chat_history, turn_start, contents, response, tool_name, tool_calls,
                    tocVars, storeVars, siteVars, crawlVars, toolVars >>

\* The loop condition holds: the body starts and calls call_mcp_tool
ToolRequested ==
    /\ turn_pc = "loop"
    /\ ~ReplyUnreadable(response[1])
    /\ LoopContinues(response[1], iteration)
    /\ ~ArgumentsUnusable(response[1])
    /\ iteration' = iteration + 1
    /\ tool_name' = response[1].name
    /\ tool_calls' = tool_calls + 1
    /\ turn_pc' = "tool"
    /\ UNCHANGED << chat_history, turn_start, contents, response, errors_shown,
                    tocVars, storeVars, siteVars, crawlVars, toolVars >>

\* call_mcp_tool returns: the tool entry is appended to the history, the call
\* and its result to the model input, and the model is called again
ToolReturned ==
    /\ turn_pc = "tool"
    /\ \E tool_result \in ToolResults :
          chat_history' = HistoryAppend(chat_history, ToolTurn(tool_name, tool_result))
    /\ contents' = contents \o << [role |-> "model", part |-> "function_call"],
                                  [role |-> "user", part |-> "function_response"] >>
    /\ turn_pc' = "llm"
    /\ UNCHANGED << turn_start, response, iteration, tool_name, tool_calls, errors_shown,
                    tocVars, storeVars, siteVars, crawlVars, toolVars >>

\* call_mcp_tool raises
ToolRaised ==
    /\ turn_pc = "tool"
    /\ Caught
    /\ UNCHANGED << chat_history, turn_start, contents, response, iteration, tool_name,
                    tool_calls, tocVars, storeVars, siteVars, crawlVars, toolVars >>

\* The loop condition fails: response.text is appended as the assistant entry
Answered ==
    /\ turn_pc = "loop"
    /\ ~ReplyUnreadable(response[1])
    /\ ~LoopContinues(response[1], iteration)
    /\ chat_history' = HistoryAppend(chat_history, AssistantTurn(response[1].text))
    /\ turn_pc' = "done"
    /\ UNCHANGED << turn_start, contents, response, iteration, tool_name, tool_calls,
                    errors_shown, tocVars, storeVars, siteVars, crawlVars, toolVars >>

NextChat ==
    \/ Submit
    \/ LlmReplied
    \/ LlmRaised
    \/ ReplyRaised
    \/ ToolRequested
    \/ ToolReturned
    \/ ToolRaised
    \/ Answered

SpecChat == InitChat /\ [][NextChat]_vars

\* =====================================================================
\* Properties
\* =====================================================================

\* --------------------------------------------------------------- C1
InFlight == Cardinality({ i \in 1..Len(task) : task[i] = "fetching" })

\* C1: at no moment of a crawl, whatever the number of routes and the order in
\* which the fetch tasks are admitted and finish, do more than 10 tasks hold the
\* semaphore (are inside fetch_with_semaphore with their GET in flight).
C1_FanOutBounded == InFlight <= MaxConcurrent

\* Ten fetches are in flight and an eleventh task is held back.
C1_Witness ==
    /\ InFlight = MaxConcurrent
    /\ \E i \in 1..Len(task) : task[i] = "waiting"

\* --------------------------------------------------------------- C2
\* C2: every run of scrape_all_docs that returns statistics reports
\* successful + failed = total_routes, and every run that returns does return
\* statistics.
C2_StatsAddUp ==
    /\ crawl_pc = "returned" => stats # None
    /\ stats # None =>
          /\ stats[1].successful + stats[1].failed = stats[1].total_routes
          /\ stats[1].total_routes = Len(routes)

\* A run over at least one route in which every page fetch failed has returned.
C2_Witness ==
    /\ crawl_pc = "returned"
    /\ stats # None
    /\ stats[1].total_routes > 0
    /\ stats[1].successful = 0

\* --------------------------------------------------------------- C4
RecordsOf(r) == { rec \in collection : rec.route = r }

\* C4: when two successive upsert_docs calls both hold a route, with different
\* content, and the second call returns, the collection holds exactly one record
\* for that route and its document is the content the second call gave it.
\* (A call whose list repeats a route does not return: collection.add rejects it.)
C4_UpsertLatestWins ==
    \A r \in rewritten :
        ~upsert_result[1].raised =>
            /\ Cardinality(RecordsOf(r)) = 1
            /\ \A rec \in RecordsOf(r) : ContentsOf(last_docs, r) = { rec.document }

\* A second call has replaced the content of a route of the call before it.
C4_Witness ==
    /\ rewritten # {}
    /\ upsert_result # None
    /\ ~upsert_result[1].raised

\* --------------------------------------------------------------- C5
\* C5: after any sequence of upsert_docs calls, whatever their document lists
\* (a list may repeat a route), the collection holds at most one record per
\* route, and a record stored for a route of the latest list comes from that
\* list: what was stored for the route before has been deleted.
C5_OneRecordPerRoute ==
    /\ \A rec1, rec2 \in collection : rec1.route = rec2.route => rec1 = rec2
    /\ \A rec \in collection :
          rec.route \in DocRoutes(last_docs) => rec.document \in ContentsOf(last_docs, rec.route)

\* A list repeating a route with two contents has been upserted over a store
\* that still holds a record.
C5_Witness ==
    /\ upsert_calls >= 2
    /\ \E r \in Routes : Cardinality(ContentsOf(last_docs, r)) > 1
    /\ collection # {}

\* --------------------------------------------------------------- C6
\* The indices of the lines of a text that satisfy P
LinesWhere(text, P(_)) == { i \in 1..Len(text) : P(text[i]) }

\* The dict of the link lines picked by P: one entry per route, each with the
\* title and description of the last picked line of that route
IsDictOf(d, text, P(_)) ==
    /\ KeySet(d) = { text[i].route : i \in LinesWhere(text, P) }
    /\ Len(d) = Cardinality(KeySet(d))
    /\ \A k \in 1..Len(d) :
          LET same == { i \in LinesWhere(text, P) : text[i].route = d[k].route }
              last == CHOOSE i \in same : \A j \in same : j <= i
          IN  /\ d[k].title = text[last].title
              /\ d[k].description = text[last].description

\* A well-formed link line that is no heading line (no leading '#')
WellFormedLine(l) == l.body = "link" /\ l.hashes = 0

\* A line holding a link that is not blank and does not start with "###" and
\* white space
LinkLine(l) == l.body = "link" /\ ~(l.hashes = 3 /\ l.sp)

\* C6 as stated: parse_toc yields one entry per route of the well-formed link
\* lines, the last occurrence winning; heading lines (one or more leading '#'),
\* blank and malformed lines contribute nothing.
C6_AsStated == toc_pc = "parsed" => IsDictOf(toc_result, toc_text, WellFormedLine)

\* C6, amended: parse_toc yields one entry per route of the lines that hold a
\* link [title](route) with a route of the prefix and at least one more
\* character, and do not start with exactly "###" followed by white space; the
\* last such line of a route gives its title and description.  Only "### "
\* lines are skipped as headings: a line starting with any other run of '#'
\* contributes its link like any other line.
C6_LinkLinesParsed == toc_pc = "parsed" => IsDictOf(toc_result, toc_text, LinkLine)

\* A text in which a route occurs twice with different titles, once on a line
\* that starts with '#', has been parsed.
C6_Witness ==
    /\ toc_pc = "parsed"
    /\ \E i, j \in 1..Len(toc_text) :
          /\ i < j
          /\ toc_text[i].body = "link" /\ toc_text[j].body = "link"
          /\ toc_text[i].route = toc_text[j].route
          /\ toc_text[i].title # toc_text[j].title
          /\ toc_text[i].hashes = 1
          /\ toc_text[j].hashes = 0
    /\ Len(toc_result) = 1

\* --------------------------------------------------------------- C9
PageRequests == { requests[u] : u \in DOMAIN requests \ {0} }

\* Page fetch failures are neither retried nor fatal: no page is requested
\* twice, the crawl does not raise, it can always take a step until it has
\* returned, and when it has returned every route was requested exactly once,
\* upsert_docs was called and the statistics are there.
CrawlSurvivesFailures ==
    /\ \A n \in PageRequests : n <= 1
    /\ requests[0] <= 1
    /\ crawl_pc # "raised"
    /\ crawl_pc \in {"idle", "toc", "gather"} => ENABLED NextCrawl
    /\ crawl_pc = "returned" =>
          /\ \A i \in 1..Len(routes) : requests[routes[i]] = 1
          /\ upsert_calls = 1
          /\ stats # None

\* C9 as stated: the above in every crawl whose table-of-contents fetch
\* succeeded (the origin answered /llms.txt with a 2xx status).
C9_AsStated == IsSuccessStatus(site_toc.status) => CrawlSurvivesFailures

\* C9, amended: the above in every crawl whose table-of-contents fetch succeeded
\* with a non-empty body (an empty table of contents is taken for a failed fetch
\* and the crawl raises).
C9_FailuresNotFatal ==
    (IsSuccessStatus(site_toc.status) /\ site_toc.body # << >>) => CrawlSurvivesFailures

\* A crawl has returned after one page fetch failed and another succeeded.
C9_Witness ==
    /\ crawl_pc = "returned"
    /\ \E i, j \in 1..Len(results) : results[i] = None /\ results[j] # None

\* -------------------------------------------------------------- C10
\* C10: when the table-of-contents fetch fails (network error or non-2xx
\* status) the crawl can only raise: no page is ever requested, upsert_docs is
\* never called, the collection stays as it was and no statistics are returned.
C10_TocFailureIsFatal ==
    ~IsSuccessStatus(site_toc.status) =>
        /\ crawl_pc \in {"idle", "toc", "raised"}
        /\ \A n \in PageRequests : n = 0
        /\ upsert_calls = 0
        /\ stats = None
        /\ crawl_pc # "idle" => collection = collection_before

\* A crawl over a non-empty store has raised on an error answer for /llms.txt.
C10_Witness ==
    /\ crawl_pc = "raised"
    /\ site_toc.status = 500
    /\ collection # {}

\* --------------------------------------------------------------- C3
\* C3: within one user turn call_mcp_tool is called at most 5 times, also when
\* every reply of the model, the one after the fifth call included, asks for a
\* function call.
C3_AtMostFiveToolCalls == tool_calls <= max_iterations

\* The turn is over after five tool calls while the latest reply still asks for
\* a function call.
C3_Witness ==
    /\ turn_pc = "done"
    /\ tool_calls = max_iterations
    /\ response[1].kind = "function_call"

\* --------------------------------------------------------------- C7
\* C7: whatever step of a turn raises (the model call, a tool call, reading the
\* reply), the exception is caught once and the turn ends with the history that
\* existed before the turn as a prefix of the history: no earlier entry is
\* changed, dropped or moved.  Only a turn that raised shows an error.
C7_FailedTurnKeepsHistory ==
    /\ turn_pc = "error" => errors_shown = 1 /\ IsPrefix(turn_start, chat_history)
    /\ turn_pc # "error" => errors_shown = 0
    /\ turn_pc # "idle" => IsPrefix(turn_start, chat_history)

\* A turn that started with a history of earlier turns has failed after it
\* recorded a tool call.
C7_Witness ==
    /\ turn_pc = "error"
    /\ turn_start # << >>
    /\ Len(chat_history) >= Len(turn_start) + 2

\* --------------------------------------------------------------- C8
ToolSentinel(name) == IF name = "get_table_of_contents" THEN SentinelToc ELSE SentinelPage

\* C8 as stated: a tool never raises; it returns the fetched text when the fetch
\* succeeded (2xx) and its sentinel when the fetch failed (network error or
\* non-2xx status).
C8_AsStated ==
    tool_pc = "returned" =>
        /\ ~tool_return[1].raised
        /\ tool_return[1].value =
              IF IsSuccessStatus(tool_exchange[1].status)
              THEN Some(tool_exchange[1].body)
              ELSE Some(ToolSentinel(tool_call[1].name))

\* C8, amended: a tool never raises; it returns the fetched text when the fetch
\* succeeded with a non-empty body, and its sentinel when the fetch failed
\* (network error or non-2xx status) or succeeded with an empty body.
C8_ToolsNeverRaise ==
    tool_pc = "returned" =>
        /\ ~tool_return[1].raised
        /\ tool_return[1].value =
              IF IsSuccessStatus(tool_exchange[1].status) /\ tool_exchange[1].body # ""
              THEN Some(tool_exchange[1].body)
              ELSE Some(ToolSentinel(tool_call[1].name))

\* read_page has answered an empty 2xx page with its sentinel.
C8_Witness ==
    /\ tool_pc = "returned"
    /\ tool_call[1].name = "read_page"
    /\ tool_exchange[1] = [status |-> 200, body |-> ""]
    /\ tool_return[1] = Returned(Some(SentinelPage))

\* -------------------------------------------------------------- C11
\* C11: whatever the origin answers for a route (no answer, an error status, a
\* 2xx page with text, a 2xx page with an empty body), no task returns a
\* document with empty content, none is handed to upsert_docs and the crawl
\* stores none.
C11_NoEmptyDocument ==
    /\ \A i \in 1..Len(results) : results[i] # None => results[i][1].content # ""
    /\ \A i \in 1..Len(last_docs) : last_docs[i].content # ""
    /\ \A rec \in collection : rec.document # ""

\* -------------------------------------------------------------- C12
\* the tasks of the crawl whose page the origin answers with a 2xx status
SuccessfulFetches == { i \in 1..Len(routes) : IsSuccessStatus(site_pages[routes[i]].status) }

\* C12: a crawl calls upsert_docs at most once, and exactly once when it
\* returns; the store is untouched while the table of contents or any page is
\* still being fetched; the call happens with every task finished and its
\* batch holds, in task order, one document per successful fetch with the body
\* the origin served, and nothing else.
C12_JoinBarrier ==
    /\ upsert_calls <= 1
    /\ crawl_pc = "returned" => upsert_calls = 1
    /\ crawl_pc \in {"toc", "gather"} => upsert_calls = 0 /\ collection = collection_before
    /\ upsert_calls = 1 =>
          /\ \A i \in 1..Len(task) : task[i] = "done"
          /\ Len(last_docs) = Cardinality(SuccessfulFetches)
          /\ \A k \in 1..Len(last_docs) :
                \E i \in SuccessfulFetches :
                   /\ Cardinality({ j \in SuccessfulFetches : j <= i }) = k
                   /\ last_docs[k].route = routes[i]
                   /\ last_docs[k].content = site_pages[routes[i]].body

\* a crawl over two routes, one fetched and one failed, has made its one call
C12_Witness ==
    /\ crawl_pc = "returned"
    /\ upsert_calls = 1
    /\ Len(routes) = 2
    /\ Cardinality(SuccessfulFetches) = 1
    /\ collection # collection_before

\* -------------------------------------------------------------- C13
\* the history entries the turn has appended so far
TurnEntries == SubSeq(chat_history, Len(turn_start) + 1, Len(chat_history))

\* C13: a turn that ends without raising has appended the user entry, one tool
\* entry per tool call and, last, exactly one assistant entry, and that entry
\* holds a text: the text of the latest reply of the model, also when the turn
\* ended at the bound of five iterations on a reply that is a function call.
C13_TurnEndsWithAnswerText ==
    turn_pc = "done" =>
        /\ errors_shown = 0
        /\ IsPrefix(turn_start, chat_history)
        /\ Len(TurnEntries) = tool_calls + 2
        /\ \A k \in 1..Len(TurnEntries) :
              TurnEntries[k].role = "assistant" <=> k = Len(TurnEntries)
        /\ TurnEntries[Len(TurnEntries)].content = response[1].text
        /\ TurnEntries[Len(TurnEntries)].content # None

\* -------------------------------------------------------------- C14
\* between the stores `before` and `after` no route lost its record, the record
\* of a route outside the batch is the same record, and every new record
\* belongs to a route of the batch
OnlyAddsOrReplaces(before, after, docs) ==
    /\ \A rec \in before :
          /\ \E kept \in after : kept.route = rec.route
          /\ rec.route \notin DocRoutes(docs) => rec \in after
    /\ \A rec \in after \ before : rec.route \in DocRoutes(docs)

\* C14: every call of upsert_docs that returns, and so every crawl that
\* returns, leaves a record for each route that had one; the record of a route
\* that is not in the batch (its fetch failed, or the table of contents no
\* longer lists it) is unchanged, and no record appears for such a route.
C14_NeverEvicts ==
    [][ /\ (upsert_calls' = upsert_calls + 1 /\ ~upsert_result'[1].raised)
            => OnlyAddsOrReplaces(collection, collection', last_docs')
        /\ crawl_pc' = "returned"
            => OnlyAddsOrReplaces(collection_before', collection', last_docs') ]_vars

\* a crawl over a store with a record for both routes has returned: one fetch
\* failed and its record is still there, the other record was replaced
C14_Witness ==
    /\ crawl_pc = "returned"
    /\ collection_before = EarlierStore
    /\ Len(routes) = 2
    /\ \E rec \in collection_before :
          /\ rec.route \in { routes[i] : i \in 1..Len(routes) }
          /\ rec.route \notin DocRoutes(last_docs)
          /\ rec \in collection
    /\ \E rec \in collection_before :
          /\ rec.route \in DocRoutes(last_docs)
          /\ rec \notin collection
          /\ \E new \in collection : new.route = rec.route

====
